---- MODULE Spec2Model ----
(***************************************************************************)
(* The coffee-shop backend (backend/src/api.py): five routes over one      *)
(* table of drinks, four of them behind requires_auth.  One action per     *)
(* route; every action handles one whole request, from the authorization   *)
(* check to the response.  req, resp and before record the last request,   *)
(* its response and the table as it was when the request arrived.          *)
(***************************************************************************)
EXTENDS Integers, Sequences, FiniteSets, TLC

VARIABLES drinks, nextId, req, resp, before

vars == <<drinks, nextId, req, resp, before>>

\* Bounds of the model.
MaxId == 2
MaxLen == 2

\* ------------------------------------------------------------------------
\* JSON values a client can send as a recipe.
\* ------------------------------------------------------------------------

EmptyDict == [k \in {} |-> ""]

\* None, as body.get yields it for an absent key
JNull == [kind |-> "null"]

JList(items) == [kind |-> "list", items |-> items]

Water == [name |-> "water", color |-> "blue", parts |-> 1]

\* an entry without color: accepted by POST, which validates nothing
Syrup == [name |-> "syrup", parts |-> 1]

Entries == {Water, Syrup}

SeqsUpTo(S, n) == UNION {[1..k -> S] : k \in 0..n}

Recipes == {JList(s) : s \in SeqsUpTo(Entries, MaxLen)}

WellFormed(r) ==
    /\ r.kind = "list"
    /\ \A i \in 1..Len(r.items) : DOMAIN r.items[i] = {"name", "color", "parts"}

Titles == {"latte", "mocha"}

\* ------------------------------------------------------------------------
\* json.dumps / json.loads: the recipe is persisted as text, here a
\* sequence of lexical tokens.
\* ------------------------------------------------------------------------

Tok(t, v) == [t |-> t, v |-> v]

Digits == <<"0", "1", "2", "3", "4", "5", "6", "7", "8", "9">>

KeyOrder == <<"name", "color", "parts">>

DumpsValue(k, v) == IF k = "parts" THEN Tok("num", Digits[v + 1]) ELSE Tok("str", v)

RECURSIVE DumpsPairs(_, _)
DumpsPairs(e, i) ==
    IF i > Len(KeyOrder) THEN <<>>
    ELSE LET k == KeyOrder[i]
         IN  (IF k \in DOMAIN e THEN <<Tok("key", k), DumpsValue(k, e[k])>> ELSE <<>>)
             \o DumpsPairs(e, i + 1)

DumpsEntry(e) == <<Tok("{", "{")>> \o DumpsPairs(e, 1) \o <<Tok("}", "}")>>

RECURSIVE DumpsItems(_)
DumpsItems(items) ==
    IF items = <<>> THEN <<>>
    ELSE DumpsEntry(Head(items)) \o DumpsItems(Tail(items))

dumps(v) ==
    IF v.kind = "null" THEN <<Tok("null", "null")>>
    ELSE <<Tok("[", "[")>> \o DumpsItems(v.items) \o <<Tok("]", "]")>>

LoadsValue(tok) ==
    IF tok.t = "num" THEN (CHOOSE n \in 0..9 : Digits[n + 1] = tok.v) ELSE tok.v

RECURSIVE LoadsObject(_, _, _)
LoadsObject(text, i, acc) ==
    IF text[i].t = "}" THEN [obj |-> acc, next |-> i + 1]
    ELSE LoadsObject(text, i + 2, (text[i].v :> LoadsValue(text[i + 1])) @@ acc)

RECURSIVE LoadsItems(_, _)
LoadsItems(text, i) ==
    IF text[i].t = "]" THEN <<>>
    ELSE LET r == LoadsObject(text, i + 1, EmptyDict)
         IN  <<r.obj>> \o LoadsItems(text, r.next)

loads(text) ==
    IF text[1].t = "null" THEN JNull ELSE JList(LoadsItems(text, 2))

\* ------------------------------------------------------------------------
\* Authorization (auth/auth.py): the bearer token of a request, described by
\* what each step of the verifier finds in it.
\* ------------------------------------------------------------------------

Permissions == {"get:drinks-detail", "post:drink", "patch:drink", "delete:drink"}

Token(header, verify, has_permissions, permissions) ==
    [header |-> header, verify |-> verify,
     has_permissions |-> has_permissions, permissions |-> permissions]

NoToken == Token("missing", "none", FALSE, {})

Barista == Token("bearer", "ok", TRUE, {"get:drinks-detail"})

Manager == Token("bearer", "ok", TRUE, Permissions)

Tokens ==
    { NoToken,
      Token("malformed", "none", FALSE, {}),
      Token("bearer", "expired", TRUE, Permissions),
      Token("bearer", "bad_claims", TRUE, Permissions),
      Token("bearer", "no_key", TRUE, Permissions),
      Token("bearer", "ok", FALSE, {}),
      Token("bearer", "ok", TRUE, {}),
      Barista,
      Manager }

AuthError(error, status_code) == [error |-> error, status_code |-> status_code]

Raise(e) == [ok |-> FALSE, error |-> e]

Passed == [ok |-> TRUE]

get_token_auth_header(tok) ==
    IF tok.header = "missing" THEN Raise(AuthError("authorization_header_missing", 401))
    ELSE IF tok.header = "malformed" THEN Raise(AuthError("invalid_header", 401))
    ELSE Passed

verify_decode_jwt(tok) ==
    IF tok.verify = "expired" THEN Raise(AuthError("token_expired", 401))
    ELSE IF tok.verify = "bad_claims" THEN Raise(AuthError("invalid_claims", 401))
    ELSE IF tok.verify = "no_key" THEN Raise(AuthError("invalid_header", 401))
    ELSE Passed

check_permissions(permission, tok) ==
    IF ~tok.has_permissions THEN Raise(AuthError("invalid_claims", 401))
    ELSE IF permission \notin tok.permissions THEN Raise(AuthError("unauthorized", 403))
    ELSE Passed

requires_auth(permission, tok) ==
    IF ~get_token_auth_header(tok).ok THEN get_token_auth_header(tok)
    ELSE IF ~verify_decode_jwt(tok).ok THEN verify_decode_jwt(tok)
    ELSE check_permissions(permission, tok)

\* ------------------------------------------------------------------------
\* The Drink model and its table (database/models.py).  drinks maps the id
\* of every stored row to its columns; recipe holds the serialized text.
\* ------------------------------------------------------------------------

Row(id, ds) == [id |-> id, title |-> ds[id].title, recipe |-> ds[id].recipe]

RECURSIVE RowsOf(_, _)
RowsOf(ds, ids) ==
    IF ids = {} THEN <<>>
    ELSE LET m == CHOOSE x \in ids : \A y \in ids : x <= y
         IN  <<Row(m, ds)>> \o RowsOf(ds, ids \ {m})

\* Drink.query.all(): every row, in id order
query_all(ds) == RowsOf(ds, DOMAIN ds)

\* the unique constraint on title, checked when a write is committed
TitleTaken(ds, id, title) == \E j \in DOMAIN ds : j # id /\ ds[j].title = title

\* drink.insert(): raises on a taken title or a store fault
insert(ds, id, title, recipe, fault) ==
    IF fault = "write" \/ TitleTaken(ds, id, title) THEN [raised |-> TRUE, drinks |-> ds]
    ELSE [raised |-> FALSE,
          drinks |-> (id :> [title |-> title, recipe |-> recipe]) @@ ds]

\* drink.update(): writes the mapped columns of the object, title and recipe
update(ds, obj, fault) ==
    IF fault = "write" \/ TitleTaken(ds, obj.id, obj.title)
    THEN [raised |-> TRUE, drinks |-> ds]
    ELSE [raised |-> FALSE,
          drinks |-> [ds EXCEPT ![obj.id] = [title |-> obj.title, recipe |-> obj.recipe]]]

\* drink.delete()
delete(ds, id, fault) ==
    IF fault = "write" THEN [raised |-> TRUE, drinks |-> ds]
    ELSE [raised |-> FALSE, drinks |-> [j \in DOMAIN ds \ {id} |-> ds[j]]]

\* drink.long(): the full recipe
long(row) == [id |-> row.id, title |-> row.title, recipe |-> loads(row.recipe)]

\* drink.short() reads color and parts of every entry of the recipe
ShortRaises(row) ==
    LET r == loads(row.recipe)
    IN  \/ r.kind # "list"
        \/ \E i \in 1..Len(r.items) : ~({"color", "parts"} \subseteq DOMAIN r.items[i])

ShortEntry(e) == [color |-> e.color, parts |-> e.parts]

short(row) ==
    LET r == loads(row.recipe)
    IN  [id |-> row.id, title |-> row.title,
         recipe |-> JList([i \in 1..Len(r.items) |-> ShortEntry(r.items[i])])]

\* ------------------------------------------------------------------------
\* Request bodies: what request.get_json() returns.  none stands for None
\* (a request without a JSON body), otherwise dict is the parsed object.
\* ------------------------------------------------------------------------

NoBody == [none |-> TRUE, dict |-> EmptyDict]

Dict(d) == [none |-> FALSE, dict |-> d]

Bodies ==
    {NoBody, Dict(EmptyDict)}
        \cup {Dict([title |-> t]) : t \in Titles}
        \cup {Dict([recipe |-> r]) : r \in Recipes}
        \cup {Dict([title |-> t, recipe |-> r]) : t \in Titles, r \in Recipes}

\* body.get(k): None when the key is absent
BodyGet(d, k) == IF k \in DOMAIN d THEN d[k] ELSE JNull

\* ------------------------------------------------------------------------
\* Error handlers
\* ------------------------------------------------------------------------

authError(error) ==
    [status |-> 401, success |-> FALSE, error |-> 401,
     message |-> <<"Authorized error", error.error>>,
     status_code |-> error.status_code]

unprocessable ==
    [status |-> 422, success |-> FALSE, error |-> 422, message |-> "Unprocessable Entity"]

internal_server_error ==
    [status |-> 500, success |-> FALSE, error |-> 500, message |-> "Internal Server Error"]

\* the 404 body patch_drink and delete_drink return themselves
NoDrinkFound ==
    [status |-> 404, success |-> FALSE, error |-> 404, message |-> "No drink was found."]

Listing(views) == [status |-> 200, success |-> TRUE, drinks |-> views]

\* ------------------------------------------------------------------------
\* Route handlers.  Each yields the response and the table it leaves.
\* fault names the store operation that fails during the request, if any:
\* "query" (Drink.query.all / Drink.query.get) or "write" (the commit).
\* ------------------------------------------------------------------------

Out(r, ds, nid) == [resp |-> r, drinks |-> ds, nextId |-> nid]

get_drinks(fault, ds) ==
    IF fault = "query" THEN internal_server_error          \* line 37, outside the try
    ELSE LET rows == query_all(ds)
         IN  IF \E i \in 1..Len(rows) : ShortRaises(rows[i]) THEN unprocessable
             ELSE Listing([i \in 1..Len(rows) |-> short(rows[i])])

\* mutant: the route without its requires_auth decorator
get_drinks_detail_public(tok, fault, ds) ==
    IF fault = "query" THEN internal_server_error
    ELSE Listing([i \in 1..Len(query_all(ds)) |-> long(query_all(ds)[i])])

\* long() only parses text that json.dumps wrote, so the except branch of
\* lines 73-75 is never taken
get_drinks_detail(tok, fault, ds) ==
    LET auth == requires_auth("get:drinks-detail", tok)
        rows == query_all(ds)
    IN  IF ~auth.ok THEN authError(auth.error)
        ELSE IF fault = "query" THEN internal_server_error  \* line 63, outside the try
        ELSE Listing([i \in 1..Len(rows) |-> long(rows[i])])

\* mutant: the insert outside any try, so that a failed insert ends in 500
create_drink_uncaught(tok, body, fault, ds, nid) ==
    LET auth == requires_auth("post:drink", tok)
        ins  == insert(ds, nid, body.dict.title, dumps(body.dict.recipe), fault)
    IN  IF ~auth.ok THEN Out(authError(auth.error), ds, nid)
        ELSE IF body.none THEN Out(internal_server_error, ds, nid)
        ELSE IF ~("title" \in DOMAIN body.dict /\ "recipe" \in DOMAIN body.dict)
             THEN Out(unprocessable, ds, nid)
        ELSE IF ins.raised THEN Out(internal_server_error, ds, nid)
        ELSE Out(Listing(<<long(Row(nid, ins.drinks))>>), ins.drinks, nid + 1)

\* mutant: the route without its requires_auth decorator
create_drink_public(tok, body, fault, ds, nid) ==
    LET ins == insert(ds, nid, body.dict.title, dumps(body.dict.recipe), fault)
    IN  IF body.none THEN Out(internal_server_error, ds, nid)
        ELSE IF ~("title" \in DOMAIN body.dict /\ "recipe" \in DOMAIN body.dict)
             THEN Out(unprocessable, ds, nid)
        ELSE IF ins.raised THEN Out(unprocessable, ds, nid)
        ELSE Out(Listing(<<long(Row(nid, ins.drinks))>>), ins.drinks, nid + 1)

create_drink(tok, body, fault, ds, nid) ==
    LET auth == requires_auth("post:drink", tok)
        ins  == insert(ds, nid, body.dict.title, dumps(body.dict.recipe), fault)
    IN  IF ~auth.ok THEN Out(authError(auth.error), ds, nid)
        \* 'title' in None raises TypeError before the try
        ELSE IF body.none THEN Out(internal_server_error, ds, nid)
        ELSE IF ~("title" \in DOMAIN body.dict /\ "recipe" \in DOMAIN body.dict)
             THEN Out(unprocessable, ds, nid)
        ELSE IF ins.raised THEN Out(unprocessable, ds, nid)
        ELSE Out(Listing(<<long(Row(nid, ins.drinks))>>), ins.drinks, nid + 1)

\* mutant: no "if not drink" check, so that an absent id fails inside the try
patch_drink_unchecked(tok, drink_id, body, fault, ds, nid) ==
    LET auth == requires_auth("patch:drink", tok)
        drink == [id |-> drink_id, title |-> ds[drink_id].title,
                  recipe |-> ds[drink_id].recipe, recepie |-> <<>>]
        d1 == IF "title" \in DOMAIN body.dict
              THEN [drink EXCEPT !.title = body.dict.title] ELSE drink
        upd == update(ds, d1, fault)
    IN  IF ~auth.ok THEN Out(authError(auth.error), ds, nid)
        ELSE IF fault = "query" THEN Out(internal_server_error, ds, nid)
        ELSE IF drink_id \notin DOMAIN ds THEN Out(unprocessable, ds, nid)
        ELSE IF body.none THEN Out(unprocessable, ds, nid)
        ELSE IF upd.raised THEN Out(unprocessable, ds, nid)
        ELSE Out(Listing(<<long(Row(drink_id, upd.drinks))>>), upd.drinks, nid)

patch_drink(tok, drink_id, body, fault, ds, nid) ==
    LET auth == requires_auth("patch:drink", tok)
        drink == [id |-> drink_id, title |-> ds[drink_id].title,
                  recipe |-> ds[drink_id].recipe, recepie |-> <<>>]
        d1 == IF "title" \in DOMAIN body.dict
              THEN [drink EXCEPT !.title = body.dict.title] ELSE drink
        \* line 151 sets the attribute recepie, which is no column of the table
        d2 == IF "recipe" \in DOMAIN body.dict
              THEN [d1 EXCEPT !.recepie = dumps(BodyGet(body.dict, "recepie"))] ELSE d1
        upd == update(ds, d2, fault)
    IN  IF ~auth.ok THEN Out(authError(auth.error), ds, nid)
        ELSE IF fault = "query" THEN Out(internal_server_error, ds, nid)  \* line 136
        ELSE IF drink_id \notin DOMAIN ds THEN Out(NoDrinkFound, ds, nid)
        ELSE IF body.none THEN Out(unprocessable, ds, nid)   \* TypeError inside the try
        ELSE IF upd.raised THEN Out(unprocessable, ds, nid)
        ELSE Out(Listing(<<long(Row(drink_id, upd.drinks))>>), upd.drinks, nid)

\* mutant: the success response without the call of drink.delete()
delete_drink_kept(tok, drink_id, fault, ds, nid) ==
    LET auth == requires_auth("delete:drink", tok)
    IN  IF ~auth.ok THEN Out(authError(auth.error), ds, nid)
        ELSE IF fault = "query" THEN Out(unprocessable, ds, nid)
        ELSE IF drink_id \notin DOMAIN ds THEN Out(NoDrinkFound, ds, nid)
        ELSE Out([status |-> 200, success |-> TRUE, deleted_drink_id |-> drink_id],
                 ds, nid)

delete_drink(tok, drink_id, fault, ds, nid) ==
    LET auth == requires_auth("delete:drink", tok)
        del == delete(ds, drink_id, fault)
    IN  IF ~auth.ok THEN Out(authError(auth.error), ds, nid)
        ELSE IF fault = "query" THEN Out(unprocessable, ds, nid)  \* line 185, inside the try
        ELSE IF drink_id \notin DOMAIN ds THEN Out(NoDrinkFound, ds, nid)
        ELSE IF del.raised THEN Out(unprocessable, ds, nid)
        ELSE Out([status |-> 200, success |-> TRUE, deleted_drink_id |-> drink_id],
                 del.drinks, nid)

\* ------------------------------------------------------------------------
\* The state machine: one request at a time.  A route's action handles the
\* whole request; Teardown then drops the request context, so that nothing
\* of a request outlives it but the table.
\* ------------------------------------------------------------------------

Request(op, id, tok, body, fault) ==
    [op |-> op, id |-> id, token |-> tok, body |-> body, fault |-> fault]

NoRequest == Request("none", 0, NoToken, NoBody, "none")

NoResponse == [status |-> 0]

Ids == 1..MaxId

\* A store fault is drawn only for requests that pass requires_auth: the
\* others never reach the store.
Inputs(permission, bodies, faults) ==
    {in \in Tokens \X bodies \X faults :
        requires_auth(permission, in[1]).ok \/ in[3] = "none"}

Init ==
    /\ drinks = EmptyDict
    /\ nextId = 1
    /\ req = NoRequest
    /\ resp = NoResponse
    /\ before = EmptyDict

Apply(r, out) ==
    /\ req' = r
    /\ resp' = out.resp
    /\ before' = drinks
    /\ drinks' = out.drinks
    /\ nextId' = out.nextId

GetDrinks ==
    /\ req = NoRequest
    /\ \E tok \in {NoToken, Manager}, fault \in {"none", "query"} :
        Apply(Request("GET /drinks", 0, tok, NoBody, fault),
              Out(get_drinks(fault, drinks), drinks, nextId))

GetDrinksDetail ==
    /\ req = NoRequest
    /\ \E in \in Inputs("get:drinks-detail", {NoBody}, {"none", "query"}) :
        Apply(Request("GET /drinks-detail", 0, in[1], NoBody, in[3]),
              Out(get_drinks_detail(in[1], in[3], drinks), drinks, nextId))

CreateDrink ==
    /\ req = NoRequest
    /\ nextId <= MaxId
    /\ \E in \in Inputs("post:drink", Bodies, {"none", "write"}) :
        Apply(Request("POST /drinks", 0, in[1], in[2], in[3]),
              create_drink(in[1], in[2], in[3], drinks, nextId))

PatchDrink ==
    /\ req = NoRequest
    /\ \E id \in Ids, in \in Inputs("patch:drink", Bodies, {"none", "query", "write"}) :
        Apply(Request("PATCH /drinks/id", id, in[1], in[2], in[3]),
              patch_drink(in[1], id, in[2], in[3], drinks, nextId))

DeleteDrink ==
    /\ req = NoRequest
    /\ \E id \in Ids, in \in Inputs("delete:drink", {NoBody}, {"none", "query", "write"}) :
        Apply(Request("DELETE /drinks/id", id, in[1], NoBody, in[3]),
              delete_drink(in[1], id, in[3], drinks, nextId))

Teardown ==
    /\ req # NoRequest
    /\ req' = NoRequest
    /\ resp' = NoResponse
    /\ before' = drinks
    /\ UNCHANGED <<drinks, nextId>>

Next ==
    \/ GetDrinks
    \/ GetDrinksDetail
    \/ CreateDrink
    \/ PatchDrink
    \/ DeleteDrink
    \/ Teardown

Spec == Init /\ [][Next]_vars

\* ------------------------------------------------------------------------
\* Properties.  Unless a property is about store faults, it is about
\* requests during which the store works (req.fault = "none").
\* ------------------------------------------------------------------------

Authorized(tok, permission) ==
    /\ tok.header = "bearer"
    /\ tok.verify = "ok"
    /\ tok.has_permissions
    /\ permission \in tok.permissions

PermissionOf(op) ==
    CASE op = "GET /drinks-detail" -> "get:drinks-detail"
      [] op = "POST /drinks" -> "post:drink"
      [] op = "PATCH /drinks/id" -> "patch:drink"
      [] op = "DELETE /drinks/id" -> "delete:drink"

Mutating == {"POST /drinks", "PATCH /drinks/id", "DELETE /drinks/id"}

Served(op) == req.op = op /\ req.fault = "none" /\ Authorized(req.token, PermissionOf(op))

Lists(listing, view) == \E i \in 1..Len(listing.drinks) : listing.drinks[i] = view

ListsId(listing, id) == \E i \in 1..Len(listing.drinks) : listing.drinks[i].id = id

Reduced(r) == JList([i \in 1..Len(r.items) |->
                        [color |-> r.items[i].color, parts |-> r.items[i].parts]])

\* C1: a GET /drinks-detail whose token is missing, malformed, fails
\* verification or lacks get:drinks-detail is answered 401 or 403, never 200.
C1_DetailNeedsPermission ==
    (req.op = "GET /drinks-detail" /\ ~Authorized(req.token, "get:drinks-detail"))
        => resp.status \in {401, 403} /\ resp.status # 200

C1_Witness ==
    /\ req.op = "GET /drinks-detail"
    /\ req.token = Token("bearer", "ok", TRUE, {})
    /\ drinks # EmptyDict
    /\ resp.status = 401

\* C2: whatever POST, PATCH and DELETE requests came before, a GET /drinks
\* without a token is answered 200 with success and one short view per stored
\* drink, each recipe entry with color and parts and without name.
C2_PublicListing ==
    (req.op = "GET /drinks" /\ req.token = NoToken /\ req.fault = "none")
        => /\ resp.status = 200
           /\ resp.success
           /\ Len(resp.drinks) = Cardinality(DOMAIN drinks)
           /\ \A id \in DOMAIN drinks : ListsId(resp, id)
           /\ \A i \in 1..Len(resp.drinks) :
                \A k \in 1..Len(resp.drinks[i].recipe.items) :
                    DOMAIN resp.drinks[i].recipe.items[k] = {"color", "parts"}

\* C3: a successful PATCH applies exactly the supplied fields: a supplied
\* title and a supplied recipe are stored, a field not supplied keeps its
\* value, and the long view returned is that of the stored drink.
C3_PatchAppliesSupplied ==
    (Served("PATCH /drinks/id") /\ resp.status = 200)
        => LET d == req.body.dict
               id == req.id
           IN  /\ drinks[id].title =
                    (IF "title" \in DOMAIN d THEN d.title ELSE before[id].title)
               /\ drinks[id].recipe =
                    (IF "recipe" \in DOMAIN d THEN dumps(d.recipe) ELSE before[id].recipe)
               /\ resp.drinks = <<long(Row(id, drinks))>>

\* C4: after a POST of a title and a recipe of {name, color, parts} entries
\* is answered 200, GET /drinks-detail lists the drink with exactly the
\* submitted entries and GET /drinks lists it with each entry reduced to
\* color and parts.
C4_RoundTrip ==
    (Served("POST /drinks") /\ resp.status = 200 /\ WellFormed(req.body.dict.recipe))
        => LET id == resp.drinks[1].id
               sent == req.body.dict
               detail == get_drinks_detail(Manager, "none", drinks)
               public == get_drinks("none", drinks)
           IN  /\ detail.status = 200
               /\ Lists(detail, [id |-> id, title |-> sent.title, recipe |-> sent.recipe])
               /\ public.status = 200
               /\ Lists(public, [id |-> id, title |-> sent.title,
                                 recipe |-> Reduced(sent.recipe)])

\* C5: no two stored drinks share a title; a POST, or a PATCH of the title,
\* whose title is that of another stored drink is answered 422 and leaves the
\* table as it was.
TitleOfAnother ==
    /\ ~req.body.none
    /\ "title" \in DOMAIN req.body.dict
    /\ \/ /\ Served("POST /drinks")
          /\ "recipe" \in DOMAIN req.body.dict
          /\ \E j \in DOMAIN before : before[j].title = req.body.dict.title
       \/ /\ Served("PATCH /drinks/id")
          /\ req.id \in DOMAIN before
          /\ \E j \in DOMAIN before \ {req.id} : before[j].title = req.body.dict.title

C5_TitlesUnique ==
    /\ \A i, j \in DOMAIN drinks : i # j => drinks[i].title # drinks[j].title
    /\ TitleOfAnother => (resp.status = 422 /\ ~resp.success /\ drinks = before)

C5_Witness ==
    /\ TitleOfAnother
    /\ req.op = "PATCH /drinks/id"
    /\ resp.status = 422
    /\ Cardinality(DOMAIN drinks) = 2

C7_AbsentIdIs404 ==
    ((Served("PATCH /drinks/id") \/ Served("DELETE /drinks/id")) /\ req.id \notin DOMAIN before)
        => /\ resp.status = 404
           /\ resp.success = FALSE
           /\ resp.error = 404
           /\ drinks = before

C7_Witness ==
    /\ Served("PATCH /drinks/id")
    /\ ~req.body.none
    /\ "title" \in DOMAIN req.body.dict
    /\ req.id \notin DOMAIN before
    /\ before # EmptyDict
    /\ resp.status = 404

\* C8: a POST, PATCH or DELETE whose authorization fails runs no handler
\* logic: the table is as it was, and the response is the envelope of
\* authError with success = false.
C8_AuthFailureChangesNothing ==
    (req.op \in Mutating /\ ~Authorized(req.token, PermissionOf(req.op)))
        => /\ drinks = before
           /\ resp.success = FALSE
           /\ resp.status = 401
           /\ resp.error = 401
           /\ resp.message[1] = "Authorized error"

C8_Witness ==
    /\ req.op = "POST /drinks"
    /\ req.token = Barista
    /\ ~req.body.none
    /\ DOMAIN req.body.dict = {"title", "recipe"}
    /\ \A j \in DOMAIN before : before[j].title # req.body.dict.title
    /\ resp.status = 401

\* C9: a fault raised by a store operation of any of the five handlers is
\* answered 422 with {success: false, error: 422}, never 500.
FaultRaised ==
    /\ req.op # "none"
    /\ req.op = "GET /drinks" \/ Authorized(req.token, PermissionOf(req.op))
    /\ \/ req.fault = "query"
       \/ /\ req.fault = "write"
          /\ \/ req.op = "POST /drinks" /\ ~req.body.none
                   /\ {"title", "recipe"} \subseteq DOMAIN req.body.dict
             \/ req.op = "PATCH /drinks/id" /\ ~req.body.none /\ req.id \in DOMAIN before
             \/ req.op = "DELETE /drinks/id" /\ req.id \in DOMAIN before

C9_StoreFaultIs422 ==
    FaultRaised => (resp.status = 422 /\ resp.success = FALSE /\ resp.error = 422)

\* C10: an authorized POST whose body lacks title or recipe, or that has no
\* JSON body at all, is answered 422 with success = false and adds no drink.
C10_MissingFieldsIs422 ==
    (Served("POST /drinks")
        /\ (req.body.none \/ ~({"title", "recipe"} \subseteq DOMAIN req.body.dict)))
        => (resp.status = 422 /\ resp.success = FALSE /\ drinks = before)

====
